---- MODULE Spec2Model ----
(***************************************************************************)
(* Model of structureFromMotion.py: the StructureFromMotion class          *)
(* (motion-parallax depth recovery) and the frame loop of the script.      *)
(*                                                                         *)
(* Floating-point values are modelled as IEEE-754 values with exact        *)
(* rational magnitudes: a sign bit, a reduced fraction, and the special    *)
(* values inf and nan that numpy produces (with a RuntimeWarning, not an   *)
(* exception) on division by zero.  Rounding is not modelled; the pixel    *)
(* inputs are chosen so that every square root taken is exact.             *)
(*                                                                         *)
(* The OpenCV calls are outside the repository.  The detector and the      *)
(* tracker are modelled by what the class expects of them: the detector    *)
(* returns the pixels of the features of a frame, the tracker a status and *)
(* a new position per point, or nothing.  The script's minFPS and maxFPS,  *)
(* which are only printed, are left out.                                   *)
(***************************************************************************)
EXTENDS Integers, Sequences, FiniteSets, TLC

VARIABLES
    target_scale,            \* self.target_scale (width, height)
    focal_length,            \* self.focal_length
    camera_pos,              \* self.camera_pos
    camera_vel,              \* self.camera_vel
    camera_rot,              \* self.camera_rot
    camera_rvel,             \* self.camera_rvel
    find_in_camera_space,    \* self.find_in_camera_space
    center,                  \* self.center
    previous_frame,          \* self.previous_frame
    previous_frame_points,   \* self.previous_frame_points
    frame_points,            \* value returned by the last get_frame_points
    dt,                      \* the module-level global dt
    good_old,                \* locals of the last get_frame_points call
    good_new,
    trace,                   \* arguments, locals and result of the last direct call of
                             \* calculate_camera_space_position_of_feature
    raised,                  \* exception raised by the last operation, or "none"
    lastOp,                  \* the operation executed last
    calls,                   \* number of operations executed
    pc,                      \* position of the script
    FPS_vals,                \* the script's FPS_vals list
    FPS,                     \* the script's FPS
    frames_left,             \* frames the capture can still deliver
    pos_at_read,             \* camera_pos when the current frame was read
    n_updates,               \* update() calls made by the frame loop
    n_frames,                \* frames handed to get_frame_points by the loop
    released,                \* out.release(), cap.release(), destroyAllWindows() ran
    frame,                   \* the script's frame (the raw frame read last)
    args                     \* (new, old) of the direct call a caller is about to make

camVars == <<target_scale, focal_length, camera_pos, camera_vel, camera_rot,
             camera_rvel, find_in_camera_space, center>>
trackVars == <<previous_frame, previous_frame_points, frame_points, good_old,
               good_new, trace>>
fixedCam == <<target_scale, focal_length, camera_rot, camera_rvel,
              find_in_camera_space, center>>
scriptVars == <<pc, FPS_vals, FPS, frames_left, pos_at_read, n_updates,
                n_frames, released, frame>>
vars == <<camVars, trackVars, scriptVars, dt, raised, lastOp, calls, args>>

(***************************************************************************)
(* Bounds of the model.                                                    *)
(***************************************************************************)
MaxOffset == 4      \* previous pixels lie within this distance of the center
MaxCalls == 3       \* operations a caller of the class performs
MaxFrames == 3      \* frames the capture delivers to the script

(***************************************************************************)
(* Floating-point values.                                                  *)
(***************************************************************************)
RECURSIVE GCD(_, _)
GCD(a, b) == IF b = 0 THEN a ELSE GCD(b, a % b)

Abs(i) == IF i < 0 THEN -i ELSE i

\* A finite value (-1)^neg * n/d, reduced; zero keeps its sign bit.
Fin(neg, n, d) ==
    LET g == GCD(n, d)
    IN  [k |-> "fin", neg |-> neg, n |-> n \div g, d |-> d \div g]

\* (-1)^neg * (n1*n2)/(d1*d2), cancelling before multiplying.
FinProd(neg, n1, d1, n2, d2) ==
    LET g1 == GCD(n1, d2)
        g2 == GCD(n2, d1)
    IN  Fin(neg, (n1 \div g1) * (n2 \div g2), (d1 \div g2) * (d2 \div g1))

Inf(neg) == [k |-> "inf", neg |-> neg, n |-> 0, d |-> 1]
NaN == [k |-> "nan", neg |-> FALSE, n |-> 0, d |-> 1]

FromInt(i) == Fin(i < 0, Abs(i), 1)
Rat(i, d) == Fin(i < 0, Abs(i), d)

IsNaN(a) == a.k = "nan"
IsInf(a) == a.k = "inf"
IsFinite(a) == a.k = "fin"
IsZero(a) == a.k = "fin" /\ a.n = 0
IsPositive(a) == (a.k = "inf" /\ ~a.neg) \/ (a.k = "fin" /\ a.n > 0 /\ ~a.neg)

\* Signed numerator of a finite value.
SNum(a) == IF a.neg THEN -a.n ELSE a.n

NegF(a) == IF IsNaN(a) THEN NaN ELSE [a EXCEPT !.neg = ~a.neg]

MulF(a, b) ==
    IF IsNaN(a) \/ IsNaN(b) THEN NaN
    ELSE IF IsInf(a) \/ IsInf(b)
         THEN IF IsZero(a) \/ IsZero(b) THEN NaN ELSE Inf(a.neg # b.neg)
         ELSE FinProd(a.neg # b.neg, a.n, a.d, b.n, b.d)

AddF(a, b) ==
    IF IsNaN(a) \/ IsNaN(b) THEN NaN
    ELSE IF IsInf(a) /\ IsInf(b) THEN (IF a.neg = b.neg THEN a ELSE NaN)
    ELSE IF IsInf(a) THEN a
    ELSE IF IsInf(b) THEN b
    ELSE LET g == GCD(a.d, b.d)
             s == SNum(a) * (b.d \div g) + SNum(b) * (a.d \div g)
         IN  IF s = 0 THEN Fin(a.neg /\ b.neg, 0, 1)
             ELSE FinProd(s < 0, Abs(s), a.d, 1, b.d \div g)

SubF(a, b) == AddF(a, NegF(b))

\* numpy division: x/0 is inf (nan for 0/0) with a warning, never an exception.
DivF(a, b) ==
    IF IsNaN(a) \/ IsNaN(b) THEN NaN
    ELSE IF IsInf(a) THEN (IF IsInf(b) THEN NaN ELSE Inf(a.neg # b.neg))
    ELSE IF IsInf(b) THEN Fin(a.neg # b.neg, 0, 1)
    ELSE IF IsZero(b) THEN (IF IsZero(a) THEN NaN ELSE Inf(a.neg # b.neg))
    ELSE FinProd(a.neg # b.neg, a.n, a.d, b.d, b.n)

IsSquare(n) == \E r \in 0..n : r * r = n
ISqrt(n) == CHOOSE r \in 0..n : r * r = n

\* Square root of a non-negative value whose reduced fraction is a square.
SqrtF(a) ==
    IF IsNaN(a) THEN NaN
    ELSE IF IsInf(a) THEN a
    ELSE IF a.n = 0 THEN a
    ELSE Fin(FALSE, ISqrt(a.n), ISqrt(a.d))

\* np.linalg.norm of a 2-vector.
Norm2(v) == SqrtF(AddF(MulF(v[1], v[1]), MulF(v[2], v[2])))

VecI(s) == [i \in 1..Len(s) |-> FromInt(s[i])]
VAdd(a, b) == [i \in 1..Len(a) |-> AddF(a[i], b[i])]
VSub(a, b) == [i \in 1..Len(a) |-> SubF(a[i], b[i])]
VScale(a, c) == [i \in 1..Len(a) |-> MulF(a[i], c)]
VDiv(a, c) == [i \in 1..Len(a) |-> DivF(a[i], c)]

(***************************************************************************)
(* Input sets.                                                             *)
(***************************************************************************)
None == [none |-> TRUE, pts |-> <<>>]
Some(pts) == [none |-> FALSE, pts |-> pts]

\* Integer offsets from the center whose length is an integer.
Offsets ==
    {o \in (-MaxOffset..MaxOffset) \X (-MaxOffset..MaxOffset) :
        IsSquare(o[1] * o[1] + o[2] * o[2])}

Scales == {<<640, 360>>, <<360, 640>>}
FocalLengths == {Rat(38199, 1000)}
Velocities == {<<0, 0, 0>>, <<0, 0, 1>>, <<0, 0, 2>>, <<1, 0, 0>>, <<0, -1, 0>>}
AngularVelocities == {<<0, 0, 0>>, <<1, 0, 0>>, <<0, 0, 1>>}

\* The pixel at integer offset o from the center c.
PixelAt(c, o) == VAdd(c, VecI(o))

\* Previous-frame pixels handed to a direct call: the center, the pixels around
\* it, and the pixel (340,180) of the documented scenario.
OldPixels == {PixelAt(center, o) : o \in Offsets \cup {<<20, 0>>}}

\* Displacements of a feature handed to a direct call.
Disparities ==
    {<<0, 0>>, <<1, 0>>, <<-1, 0>>, <<0, 1>>, <<0, -1>>, <<3, 4>>, <<-3, -4>>,
     <<-3, 4>>}

\* Features a detector can report in a frame, and the displacements the
\* tracker can report for one of them.
FrameOffsets == {<<0, 0>>, <<3, 4>>}
FlowSteps == {<<0, 0>>, <<3, 4>>}

SeqsUpTo(S, n) == UNION {[1..m -> S] : m \in 0..n}

\* A raw video frame, identified by the features visible in it: none, one or
\* two, in either order.
RawFrames == {[feats |-> s, stage |-> "raw"] : s \in SeqsUpTo(FrameOffsets, 2)}

(***************************************************************************)
(* class StructureFromMotion                                               *)
(***************************************************************************)

\* _setupMisc: self.center = target_scale / 2.
_setupMisc_center(scale) ==
    <<DivF(FromInt(scale[1]), FromInt(2)), DivF(FromInt(scale[2]), FromInt(2))>>

\* cv2.resize + cvtColor + equalizeHist: the features stay those of the image.
preprocess_frame(raw_frame) == [raw_frame EXCEPT !.stage = "equalized"]

\* orb_detector.detectAndCompute(frame, None)[0]: the pixels of the features.
detectAndCompute(image) ==
    [i \in 1..Len(image.feats) |-> PixelAt(center, image.feats[i])]

\* a[st == 1]
Mask(a, st) ==
    LET F[i \in 0..Len(a)] ==
            IF i = 0 THEN <<>>
            ELSE IF st[i] THEN Append(F[i - 1], a[i]) ELSE F[i - 1]
    IN  F[Len(a)]

\* p1 and st are what cv2.calcOpticalFlowPyrLK returns.
calculate_optical_flow(p1, st) ==
    IF ~p1.none
    THEN [good_new |-> Some(Mask(p1.pts, st)),
          good_old |-> Mask(previous_frame_points, st)]
    ELSE [good_new |-> None, good_old |-> Mask(previous_frame_points, st)]

normalized(radial_vector) == VDiv(radial_vector, Norm2(radial_vector))

_calcVanishingPoint(disparity_origin) ==
    normalized(VSub(center, disparity_origin))

distributed(x_disparity, y_disparity, radial_vector) ==
    <<x_disparity, y_disparity,
      AddF(MulF(radial_vector[1], x_disparity),
           MulF(radial_vector[2], y_disparity))>>

\* Mutant: the disparity is not negated.
_distributeDisparity_unnegated(disparity, radial_vector) ==
    distributed(disparity[1], disparity[2], radial_vector)

_distributeDisparity(disparity, radial_vector) ==
    distributed(NegF(disparity[1]), NegF(disparity[2]), radial_vector)

\* roll_disparity, yaw_disparity, pitch_disparity
rotational(perpendicular_vector, x_disparity, y_disparity) ==
    <<AddF(MulF(perpendicular_vector[1], x_disparity),
           MulF(perpendicular_vector[2], y_disparity)),
      x_disparity,
      y_disparity>>

_calcRotationalDisparities(radial_vector, x_disparity, y_disparity) ==
    rotational(<<radial_vector[2], NegF(radial_vector[1])>>, x_disparity, y_disparity)

_calcWeightedDisparity(x_disparity, y_disparity, z_disparity, pitch_disparity, yaw_disparity, roll_disparity) ==
    AddF(AddF(AddF(AddF(AddF(MulF(x_disparity, camera_vel[1]),
                             MulF(y_disparity, camera_vel[2])),
                        MulF(z_disparity, camera_vel[3])),
                   MulF(pitch_disparity, camera_rvel[1])),
              MulF(yaw_disparity, camera_rvel[2])),
         MulF(roll_disparity, camera_rvel[3]))

_calcDistance(weighted_disparity) ==
    DivF(focal_length, MulF(weighted_disparity, FromInt(10)))

\* The locals of calculate_distance_from_disparity, computed in the order of
\* its statements.  The call of _calcRotationalDisparities passes z_disparity
\* as its y_disparity argument.
distance_locals_4(radial_vector, xyz, rot, weighted_disparity) ==
    [radial_vector |-> radial_vector,
     x_disparity |-> xyz[1], y_disparity |-> xyz[2], z_disparity |-> xyz[3],
     roll_disparity |-> rot[1], yaw_disparity |-> rot[2],
     pitch_disparity |-> rot[3],
     weighted_disparity |-> weighted_disparity,
     distance |-> _calcDistance(weighted_disparity)]

distance_locals_3(radial_vector, xyz, rot) ==
    distance_locals_4(radial_vector, xyz, rot,
        _calcWeightedDisparity(xyz[1], xyz[2], xyz[3], rot[3], rot[2], rot[1]))

distance_locals_2(radial_vector, xyz) ==
    distance_locals_3(radial_vector, xyz,
        _calcRotationalDisparities(radial_vector, xyz[1], xyz[3]))

distance_locals_1(radial_vector, disparity) ==
    distance_locals_2(radial_vector, _distributeDisparity(disparity, radial_vector))

calculate_distance_locals(disparity_origin, disparity) ==
    distance_locals_1(_calcVanishingPoint(disparity_origin), disparity)

calculate_distance_from_disparity(disparity_origin, disparity) ==
    calculate_distance_locals(disparity_origin, disparity).distance

\* Lines 249-253 of calculate_camera_space_position_of_feature: x, y and the
\* returned array.
back_project(new, distance) ==
    LET half(i) == DivF(FromInt(target_scale[i]), FromInt(2))
        coord(i) ==
            MulF(DivF(MulF(SubF(new[i], half(i)), distance),
                      MulF(focal_length, FromInt(target_scale[i]))),
                 FromInt(1000))
    IN  <<coord(1), coord(2), distance, new[1], new[2]>>

calculate_camera_space_position_of_feature(new, old) ==
    back_project(new, calculate_distance_from_disparity(old, VSub(new, old)))

\* numpy's a + b on one-dimensional arrays: shapes must be equal or one of
\* them of length one, otherwise ValueError.
np_add(a, b) ==
    IF Len(a) = Len(b) THEN [ok |-> TRUE, val |-> VAdd(a, b)]
    ELSE IF Len(b) = 1 THEN [ok |-> TRUE, val |-> [i \in 1..Len(a) |-> AddF(a[i], b[1])]]
    ELSE IF Len(a) = 1 THEN [ok |-> TRUE, val |-> [i \in 1..Len(b) |-> AddF(a[1], b[i])]]
    ELSE [ok |-> FALSE, val |-> <<>>]

\* Mutant: the velocity is added without the time step.
update_pos_without_dt ==
    VAdd(camera_pos, camera_vel)

\* update(): self.camera_pos + self.camera_vel * dt
update_pos ==
    VAdd(camera_pos, VScale(camera_vel, dt))

(***************************************************************************)
(* Operations of the class, as state changes.                              *)
(***************************************************************************)
NoFrame == [feats |-> <<>>, stage |-> "none"]
NoTrace == <<>>

\* __init__: _setupCamera, _setupMisc.
Construct(scale, focal, pos, vel, rot, rvel, camera_space) ==
    /\ target_scale = scale
    /\ focal_length = focal
    /\ camera_pos = VecI(pos)
    /\ camera_vel = VecI(vel)
    /\ camera_rot = VecI(rot)
    /\ camera_rvel = VecI(rvel)
    /\ find_in_camera_space = camera_space
    /\ center = _setupMisc_center(scale)
    /\ previous_frame = NoFrame
    /\ previous_frame_points = <<>>
    /\ frame_points = <<>>
    /\ good_old = <<>>
    /\ good_new = None
    /\ trace = NoTrace
    /\ raised = "none"
    /\ lastOp = "__init__"
    /\ calls = 0

set_camera_velocity(new_velocity) ==
    /\ camera_vel' = VecI(new_velocity)
    /\ UNCHANGED <<fixedCam, camera_pos, trackVars>>
    /\ raised' = "none"

update ==
    /\ camera_pos' = update_pos
    /\ UNCHANGED <<fixedCam, camera_vel, trackVars>>
    /\ raised' = "none"

initialize(raw_previous_frame) ==
    /\ previous_frame' = preprocess_frame(raw_previous_frame)
    /\ previous_frame_points' = detectAndCompute(previous_frame')
    /\ UNCHANGED <<camVars, frame_points, good_old, good_new, trace>>
    /\ raised' = "none"

\* What cv2.calcOpticalFlowPyrLK can return for the points pts: a status per
\* point and the new positions (the position of a point that was not found
\* is not used), or no positions and no status at all.
Flows(pts) ==
    LET n == Len(pts)
    IN  {[p1 |-> None, st |-> [i \in 1..n |-> FALSE]]}
        \cup {[p1 |-> Some([i \in 1..n |-> VAdd(pts[i], VecI(step[i]))]), st |-> st] :
                 <<st, step>> \in
                     {x \in [1..n -> BOOLEAN] \X [1..n -> FlowSteps] :
                         \A i \in 1..n : ~x[1][i] => x[2][i] = <<0, 0>>}}

\* One pass of the loop of get_frame_points: the point appended for cam_pos;
\* ok is FALSE when the addition of the camera position raises.
appended(cam_pos) ==
    IF ~find_in_camera_space
    THEN np_add(cam_pos, camera_pos)
    ELSE [ok |-> TRUE, val |-> cam_pos]

\* zip(good_new, good_old), each pair resolved and appended.
frame_points_of(new, old) ==
    [i \in 1..(IF Len(new) < Len(old) THEN Len(new) ELSE Len(old)) |->
        appended(calculate_camera_space_position_of_feature(new[i], old[i]))]

get_frame_points_3(current_frame, tracked, computed) ==
    /\ good_new' = tracked.good_new
    /\ good_old' = tracked.good_old
    /\ UNCHANGED <<camVars, trace>>
    /\ IF tracked.good_new.none
       THEN /\ frame_points' = <<>>
            /\ previous_frame' = current_frame
            /\ UNCHANGED previous_frame_points
            /\ raised' = "none"
       ELSE IF \A i \in 1..Len(computed) : computed[i].ok
       THEN /\ frame_points' = [i \in 1..Len(computed) |-> computed[i].val]
            /\ previous_frame_points' = detectAndCompute(previous_frame)
            /\ previous_frame' = current_frame
            /\ raised' = "none"
       ELSE /\ raised' = "ValueError"
            /\ UNCHANGED <<frame_points, previous_frame, previous_frame_points>>

get_frame_points_2(current_frame, tracked) ==
    get_frame_points_3(current_frame, tracked,
                       frame_points_of(tracked.good_new.pts, tracked.good_old))

get_frame_points(raw_frame, flow) ==
    get_frame_points_2(preprocess_frame(raw_frame),
                       calculate_optical_flow(flow.p1, flow.st))

(***************************************************************************)
(* FeatureSpec: a caller constructs the object, may set the velocity, and  *)
(* resolves one feature by calculate_camera_space_position_of_feature.     *)
(***************************************************************************)
NoScript ==
    /\ pc = "api"
    /\ FPS_vals = <<>>
    /\ FPS = FromInt(0)
    /\ frames_left = 0
    /\ pos_at_read = camera_pos
    /\ n_updates = 0
    /\ n_frames = 0
    /\ released = FALSE
    /\ frame = NoFrame

\* The record of one call of calculate_camera_space_position_of_feature.
traced(new, old, locals) ==
    [new |-> new, old |-> old, locals |-> locals,
     result |-> back_project(new, locals.distance)]

FeatureInit ==
    /\ \E scale \in Scales, focal \in FocalLengths, vel \in Velocities,
          rvel \in AngularVelocities :
          Construct(scale, focal, <<0, 0, 0>>, vel, <<0, 0, 0>>, rvel, TRUE)
    /\ dt = Rat(1, 20)
    /\ NoScript
    /\ \E old \in OldPixels, d \in Disparities : args = <<VAdd(old, VecI(d)), old>>

CallFeature ==
    /\ trace = NoTrace
    /\ trace' = <<traced(args[1], args[2],
                         calculate_distance_locals(args[2], VSub(args[1], args[2])))>>
    /\ raised' = "none"
    /\ lastOp' = "calculate_camera_space_position_of_feature"
    /\ calls' = calls + 1
    /\ UNCHANGED <<camVars, previous_frame, previous_frame_points,
                   frame_points, good_old, good_new, scriptVars, dt, args>>

FeatureSetVelocity ==
    /\ calls = 0
    /\ \E v \in Velocities :
        /\ set_camera_velocity(v)
        /\ lastOp' = "set_camera_velocity"
        /\ calls' = calls + 1
        /\ UNCHANGED <<scriptVars, dt, args>>

FeatureNext == CallFeature \/ FeatureSetVelocity

FeatureSpec == FeatureInit /\ [][FeatureNext]_vars

(***************************************************************************)
(* Spec: a caller constructs the object, then calls initialize,            *)
(* get_frame_points, update and set_camera_velocity in any order.          *)
(* get_frame_points needs a previous frame, so it follows an initialize.   *)
(***************************************************************************)
ClassVelocities == {<<0, 0, 0>>, <<0, 0, 1>>}

Init ==
    /\ \E camera_space \in BOOLEAN :
          Construct(<<640, 360>>, Rat(38199, 1000), <<0, 0, 0>>, <<0, 0, 1>>,
                    <<0, 0, 0>>, <<0, 0, 0>>, camera_space)
    /\ dt = Rat(1, 20)
    /\ NoScript
    /\ args = <<>>

CallInitialize ==
    /\ calls < MaxCalls
    /\ \E raw \in RawFrames : initialize(raw)
    /\ lastOp' = "initialize"
    /\ calls' = calls + 1
    /\ UNCHANGED <<scriptVars, dt, args>>

CallGetFramePoints ==
    /\ calls < MaxCalls
    /\ previous_frame # NoFrame
    /\ \E raw \in RawFrames, flow \in Flows(previous_frame_points) :
          get_frame_points(raw, flow)
    /\ lastOp' = "get_frame_points"
    /\ calls' = calls + 1
    /\ UNCHANGED <<scriptVars, dt, args>>

CallUpdate ==
    /\ calls < MaxCalls
    /\ update
    /\ lastOp' = "update"
    /\ calls' = calls + 1
    /\ UNCHANGED <<scriptVars, dt, args>>

CallSetCameraVelocity ==
    /\ calls < MaxCalls
    /\ \E v \in ClassVelocities : set_camera_velocity(v)
    /\ lastOp' = "set_camera_velocity"
    /\ calls' = calls + 1
    /\ UNCHANGED <<scriptVars, dt, args>>

Next ==
    \/ CallInitialize
    \/ CallGetFramePoints
    \/ CallUpdate
    \/ CallSetCameraVelocity

Spec == Init /\ [][Next]_vars

(***************************************************************************)
(* Claims about the per-feature resolution (FeatureSpec).                  *)
(***************************************************************************)
Resolved == trace # NoTrace
Zero3 == VecI(<<0, 0, 0>>)
HasNonFinite(p) == \E i \in 1..3 : ~IsFinite(p[i])

\* C1: a feature whose previous pixel is the frame center is refused with a
\* DegenerateRadialVector error; no point is produced for it.
C1_CenterFailsDegenerateRadialVector ==
    (Resolved /\ trace[1].old = center) =>
        /\ raised = "DegenerateRadialVector"
        /\ ~HasNonFinite(trace[1].result)

\* C2: a feature whose weighted disparity is exactly zero (always the case
\* when velocity and angular velocity are both zero) is refused with a
\* NonFiniteDepth error; no division by zero, no point.
C2_ZeroWeightFailsNonFiniteDepth ==
    (Resolved /\ IsZero(trace[1].locals.weighted_disparity)) =>
        /\ raised = "NonFiniteDepth"
        /\ ~HasNonFinite(trace[1].result)

\* C4: for a previous pixel other than the center, with x = -disparity.x,
\* y = -disparity.y and perp = (radial.y, -radial.x), the rotational
\* components are roll = perp.x*x + perp.y*y, yaw = x and pitch = y.
C4_RotationalComponentsUseY ==
    (Resolved /\ trace[1].old # center) =>
        LET l == trace[1].locals
            x == NegF(SubF(trace[1].new[1], trace[1].old[1]))
            y == NegF(SubF(trace[1].new[2], trace[1].old[2]))
            perp == <<l.radial_vector[2], NegF(l.radial_vector[1])>>
        IN  /\ l.roll_disparity = AddF(MulF(perp[1], x), MulF(perp[2], y))
            /\ l.yaw_disparity = x
            /\ l.pitch_disparity = y

\* The disparity of the resolved feature points from the center through the
\* previous pixel: it is a positive multiple of (old - center).
PointsAwayFromCenter ==
    LET d == VSub(trace[1].new, trace[1].old)
        r == VSub(trace[1].old, center)
    IN  /\ IsZero(SubF(MulF(d[1], r[2]), MulF(d[2], r[1])))
        /\ IsPositive(AddF(MulF(d[1], r[1]), MulF(d[2], r[2])))

ForwardMotionOnly ==
    /\ IsZero(camera_vel[1]) /\ IsZero(camera_vel[2])
    /\ IsPositive(camera_vel[3])
    /\ camera_rvel = Zero3

\* C8: under forward motion (0,0,v), v > 0, and no rotation, a feature off the
\* center whose non-zero disparity points exactly away from the center has a
\* finite, strictly positive depth, focal_length / (10 * v * |disparity|).
C8_RecedingFeatureDepthPositive ==
    (Resolved /\ ForwardMotionOnly /\ trace[1].old # center /\ PointsAwayFromCenter) =>
        LET depth == trace[1].result[3]
            d == VSub(trace[1].new, trace[1].old)
        IN  /\ IsFinite(depth)
            /\ IsPositive(depth)
            /\ depth = DivF(focal_length,
                            MulF(MulF(FromInt(10), camera_vel[3]), Norm2(d)))

\* The documented scenario: center (320,180), previous (340,180), current
\* (341,180), v = 1, focal length 38.199, depth 3.8199.
C8_Witness ==
    /\ Resolved
    /\ ForwardMotionOnly
    /\ PointsAwayFromCenter
    /\ center = VecI(<<320, 180>>)
    /\ trace[1].old = VecI(<<340, 180>>)
    /\ trace[1].new = VecI(<<341, 180>>)
    /\ camera_vel = VecI(<<0, 0, 1>>)
    /\ focal_length = Rat(38199, 1000)
    /\ trace[1].result[3] = Rat(38199, 10000)

(***************************************************************************)
(* Claims about the class under any caller (Spec).                         *)
(***************************************************************************)
\* The correspondences of the last get_frame_points call.
NumPairs ==
    IF Len(good_new.pts) < Len(good_old) THEN Len(good_new.pts) ELSE Len(good_old)

\* Resolution of correspondence i succeeds in the sense of the design: the
\* previous pixel is off the center and the weighted disparity is not zero.
FeatureSucceeds(i) ==
    /\ good_old[i] # center
    /\ ~IsZero(calculate_distance_locals(
                   good_old[i], VSub(good_new.pts[i], good_old[i])).weighted_disparity)

\* The camera-space points of the successful correspondences, in order.
SuccessfulPoints ==
    LET F[i \in 0..NumPairs] ==
            IF i = 0 THEN <<>>
            ELSE IF FeatureSucceeds(i)
                 THEN Append(F[i - 1],
                             calculate_camera_space_position_of_feature(
                                 good_new.pts[i], good_old[i]))
                 ELSE F[i - 1]
    IN  F[NumPairs]

\* C3: the result of get_frame_points holds exactly one entry for each
\* correspondence whose resolution succeeded, in the order supplied, and no
\* entry for a failed one (previous pixel at the center, or zero weighted
\* disparity).  Stated for camera-space output, where an entry is the
\* camera-space point.
C3_ResultOmitsFailedFeatures ==
    (lastOp = "get_frame_points" /\ raised = "none" /\ find_in_camera_space) =>
        frame_points = SuccessfulPoints

\* C5: with world-space output every successfully resolved feature yields the
\* camera-space point plus the camera position over the three coordinates,
\* with the current pixel as source pixel, and producing it never fails.
C5_WorldSpacePointIsOffsetByPosition ==
    (/\ lastOp = "get_frame_points"
     /\ ~find_in_camera_space
     /\ \E i \in 1..NumPairs : FeatureSucceeds(i)) =>
        /\ raised = "none"
        /\ \A i \in 1..NumPairs :
              FeatureSucceeds(i) =>
                  LET cam == calculate_camera_space_position_of_feature(
                                 good_new.pts[i], good_old[i])
                  IN  \E j \in 1..Len(frame_points) :
                          frame_points[j] =
                              <<AddF(cam[1], camera_pos[1]), AddF(cam[2], camera_pos[2]),
                                AddF(cam[3], camera_pos[3]),
                                good_new.pts[i][1], good_new.pts[i][2]>>

\* C7: update changes only the camera position, to position + velocity*dt;
\* set_camera_velocity changes only the velocity; get_frame_points changes no
\* camera state; rotation, angular velocity, focal length, frame size and
\* center never change, and the center is half the frame size.
C7_CameraStateChanges ==
    [][/\ (calls' # calls /\ lastOp' = "update") =>
              /\ camera_pos' = VAdd(camera_pos, VScale(camera_vel, dt))
              /\ (camera_pos = Zero3 /\ camera_vel = VecI(<<0, 0, 1>>) /\ dt = Rat(1, 20)
                    => camera_pos' = <<FromInt(0), FromInt(0), Rat(5, 100)>>)
              /\ camera_vel' = camera_vel
       /\ (calls' # calls /\ lastOp' = "set_camera_velocity") =>
              camera_pos' = camera_pos
       /\ (calls' # calls /\ lastOp' \in {"get_frame_points", "initialize"}) =>
              /\ camera_pos' = camera_pos
              /\ camera_vel' = camera_vel
       /\ fixedCam' = fixedCam
       /\ center' = <<DivF(FromInt(target_scale'[1]), FromInt(2)),
                      DivF(FromInt(target_scale'[2]), FromInt(2))>>
      ]_vars

\* The documented advance: from (0,0,0) with velocity (0,0,1) and dt 0.05.
C7_Witness ==
    /\ lastOp = "update"
    /\ calls = 1
    /\ camera_vel = VecI(<<0, 0, 1>>)
    /\ dt = Rat(1, 20)
    /\ camera_pos = <<FromInt(0), FromInt(0), Rat(1, 20)>>

\* C9: after initialize and after every get_frame_points the stored points
\* are the features detected in the frame stored as previous_frame.
C9_PointsBelongToPreviousFrame ==
    (lastOp \in {"initialize", "get_frame_points"}) =>
        previous_frame_points = detectAndCompute(previous_frame)

(***************************************************************************)
(* ScriptSpec: the module-level script, lines 319-382.                     *)
(***************************************************************************)
\* dt as measured at line 368; it can come out zero or negative.
MeasuredDt == {Rat(1, 10), Rat(-1, 100)}

ScriptInit ==
    /\ Construct(<<360, 640>>, Rat(38199, 1000), <<0, 0, 0>>, <<0, 0, 1>>,
                 <<0, 0, 0>>, <<0, 0, 0>>, TRUE)
    /\ dt = FromInt(0)          \* not assigned before line 337
    /\ pc = "start"
    /\ FPS_vals = <<>>
    /\ FPS = FromInt(0)         \* not assigned before line 342
    /\ frames_left \in 0..MaxFrames
    /\ pos_at_read = camera_pos
    /\ n_updates = 0
    /\ n_frames = 0
    /\ released = FALSE
    /\ frame = NoFrame
    /\ args = <<>>

\* Lines 330-337 and 375-376: read the first frame; initialize or report.
ScriptReadFirst ==
    /\ pc = "start"
    /\ IF frames_left > 0
       THEN /\ \E raw \in RawFrames : initialize(raw)
            /\ frames_left' = frames_left - 1
            /\ dt' = Rat(1, 20)
            /\ pc' = "read"
            /\ lastOp' = "initialize"
       ELSE /\ pc' = "stats"
            /\ UNCHANGED <<camVars, trackVars, raised, frames_left, dt, lastOp>>
    /\ UNCHANGED <<FPS_vals, FPS, pos_at_read, n_updates, n_frames, released,
                   frame, calls, args>>

\* Lines 341-348: compute FPS, read the next frame, leave at end of stream.
ScriptRead ==
    /\ pc = "read"
    /\ FPS' = IF IsPositive(dt) THEN DivF(FromInt(1), dt) ELSE FPS
    /\ IF frames_left > 0
       THEN /\ frame' \in RawFrames
            /\ frames_left' = frames_left - 1
            /\ pos_at_read' = camera_pos
            /\ pc' = "update"
       ELSE /\ pc' = "stats"
            /\ UNCHANGED <<frame, frames_left, pos_at_read>>
    /\ UNCHANGED <<camVars, trackVars, raised, lastOp, dt, FPS_vals, n_updates,
                   n_frames, released, calls, args>>

\* Mutant: the loop calls update() after get_frame_points instead of before.
ScriptUpdate_after_points ==
    \/ /\ pc = "update"
       /\ pc' = "points"
       /\ UNCHANGED <<camVars, trackVars, raised, lastOp, FPS_vals, FPS, frames_left,
                      pos_at_read, n_updates, n_frames, released, frame, dt, calls,
                      args>>
    \/ /\ pc = "draw"
       /\ n_updates < n_frames
       /\ update
       /\ lastOp' = "update"
       /\ n_updates' = n_updates + 1
       /\ pc' = "draw"
       /\ UNCHANGED <<FPS_vals, FPS, frames_left, pos_at_read, n_frames, released,
                      frame, dt, calls, args>>

\* Line 351: structureFromMotion.update()
ScriptUpdate ==
    /\ pc = "update"
    /\ update
    /\ lastOp' = "update"
    /\ n_updates' = n_updates + 1
    /\ pc' = "points"
    /\ UNCHANGED <<FPS_vals, FPS, frames_left, pos_at_read, n_frames, released,
                   frame, dt, calls, args>>

\* Line 352: structureFromMotion.frame_points = get_frame_points(frame)
ScriptGetFramePoints ==
    /\ pc = "points"
    /\ \E flow \in Flows(previous_frame_points) : get_frame_points(frame, flow)
    /\ lastOp' = "get_frame_points"
    /\ n_frames' = n_frames + 1
    /\ pc' = IF raised' = "none" THEN "draw" ELSE "crashed"
    /\ UNCHANGED <<FPS_vals, FPS, frames_left, pos_at_read, n_updates, released,
                   frame, dt, calls, args>>

\* int(v) in draw_3d_topdown_view: OverflowError for an infinity (caught at
\* line 303), ValueError for a nan (not caught).
draw_3d_topdown_view_raises(points) ==
    \E i \in 1..Len(points) :
        \/ IsNaN(points[i][1])
        \/ (IsFinite(points[i][1]) /\ IsNaN(points[i][3]))

\* Lines 353-361: draw the points, write and show the frame.
ScriptDraw ==
    /\ pc = "draw"
    /\ IF draw_3d_topdown_view_raises(frame_points)
       THEN raised' = "ValueError" /\ pc' = "crashed"
       ELSE raised' = raised /\ pc' = "key"
    /\ UNCHANGED <<camVars, trackVars, lastOp, dt, FPS_vals, FPS, frames_left,
                   pos_at_read, n_updates, n_frames, released, frame, calls, args>>

\* Lines 363-373: leave on Esc, otherwise measure dt and record FPS.
ScriptKey ==
    /\ pc = "key"
    /\ \/ /\ pc' = "stats"
          /\ UNCHANGED <<dt, FPS_vals>>
       \/ /\ dt' \in MeasuredDt
          /\ FPS_vals' = Append(FPS_vals, FPS)
          /\ pc' = "read"
    /\ UNCHANGED <<camVars, trackVars, raised, lastOp, FPS, frames_left,
                   pos_at_read, n_updates, n_frames, released, frame, calls, args>>

\* Lines 377-378: avgFps = sum(FPS_vals)/len(FPS_vals)
ScriptStats ==
    /\ pc = "stats"
    /\ IF Len(FPS_vals) = 0
       THEN raised' = "ZeroDivisionError" /\ pc' = "crashed"
       ELSE raised' = raised /\ pc' = "cleanup"
    /\ UNCHANGED <<camVars, trackVars, lastOp, dt, FPS_vals, FPS, frames_left,
                   pos_at_read, n_updates, n_frames, released, frame, calls, args>>

\* Lines 380-382: out.release(), cap.release(), cv2.destroyAllWindows()
ScriptCleanup ==
    /\ pc = "cleanup"
    /\ released' = TRUE
    /\ pc' = "done"
    /\ UNCHANGED <<camVars, trackVars, raised, lastOp, dt, FPS_vals, FPS,
                   frames_left, pos_at_read, n_updates, n_frames, frame, calls, args>>

ScriptNext ==
    \/ ScriptReadFirst
    \/ ScriptRead
    \/ ScriptUpdate
    \/ ScriptGetFramePoints
    \/ ScriptDraw
    \/ ScriptKey
    \/ ScriptStats
    \/ ScriptCleanup

ScriptSpec == ScriptInit /\ [][ScriptNext]_vars

(***************************************************************************)
(* Claims about the script (ScriptSpec).                                   *)
(***************************************************************************)
\* C6 as stated: the advance of a frame follows the production of its points,
\* so get_frame_points runs with the camera position the frame started with.
C6_PointsSeePositionAtFrameStart ==
    [][(pc = "points" /\ pc' # "points") => camera_pos = pos_at_read]_vars

\* C6 amended: the camera position is advanced exactly once per processed
\* frame and the advance precedes the production of that frame's points, so
\* get_frame_points runs with the position the frame started with plus
\* velocity*dt (for the first processed frame: the initial position plus
\* velocity*dt).
C6_AdvanceOncePerFrameBeforePoints ==
    [][/\ (pc = "points" /\ pc' # "points") =>
              /\ n_updates = n_frames + 1
              /\ camera_pos = VAdd(pos_at_read, VScale(camera_vel, dt))
              /\ (n_frames = 0 =>
                      camera_pos = <<FromInt(0), FromInt(0), Rat(1, 20)>>)
       /\ (pc # "update" /\ pc' = "update") => n_updates = n_frames
       /\ n_updates' \in {n_updates, n_updates + 1}
      ]_vars

\* Two frames have been processed, each after its own advance.
C6_Witness ==
    /\ pc = "draw"
    /\ n_frames = 2
    /\ n_updates = 2
    /\ camera_pos = <<FromInt(0), FromInt(0), Rat(3, 20)>>

\* C10: however the run ends (no first frame, end of stream, Esc), it ends
\* in the clean-up step and without an unhandled error.
C10_RunEndsInCleanup ==
    (pc \in {"done", "crashed"}) => (pc = "done" /\ released /\ raised = "none")

====
